---- MODULE Spec2Model ----
(***************************************************************************)
(* Model of kalshi/src/auth.rs: the login and logout transitions of the    *)
(* typed client handle Kalshi<LoggedOut> / Kalshi<LoggedIn>.               *)
(*                                                                         *)
(* A handle is a record [state, base_url, curr_token, member_id, client].  *)
(* Every handle value the caller has ever obtained stays in `handles`:     *)
(* login borrows its receiver as &mut self and logout as &self, so neither *)
(* call moves the receiver out of the caller's hands.                      *)
(***************************************************************************)
EXTENDS Integers, Sequences, FiniteSets, TLC

\* ---------------------------------------------------------------- bounds
\* Number of login/logout calls explored in one behaviour.
MaxCalls == 4

\* ------------------------------------------------------- input universes
BaseUrls == {"https://api", "https://demo"}
Users == {"a@b.com"}
Passwords == {"pw"}
\* Strings the server may put in a JSON field of its response.
Vals == {"xyz", "42"}
\* HTTP statuses a delivered response may carry (a 2xx and a non-2xx one).
Statuses == {200, 401}
FieldNames == {"member_id", "token"}

\* ------------------------------------------------------ Option<String>
None == [some |-> FALSE, val |-> ""]
Some(v) == [some |-> TRUE, val |-> v]

\* --------------------------------------------------- the server's answers
\* A response body: either not JSON at all, or a JSON object holding some
\* of the fields of LoginResponse.
NotJson == [json |-> FALSE, fields |-> [k \in {} |-> ""]]
Bodies ==
    {NotJson} \cup
    {[json |-> TRUE, fields |-> f] :
        f \in UNION {[S -> Vals] : S \in SUBSET FieldNames}}

\* What the transport does with one request: the request could not be sent
\* (delivered = FALSE), or a response with some status and body came back.
Unreachable == [delivered |-> FALSE, status |-> 0, body |-> NotJson]
NetOutcomes ==
    {Unreachable} \cup
    {[delivered |-> TRUE, status |-> s, body |-> b] :
        s \in Statuses, b \in Bodies}

\* ------------------------------------------------------------- KalshiError
\* Conversion of the transport library's error into KalshiError, applied by
\* each `?` of login and logout.  cause is "send" for a request that could
\* not be sent and "decode" for a body that does not deserialize.
KalshiErrorFrom_same_kind(cause) == "TransportError"

KalshiErrorFrom(cause) ==
    IF cause = "decode" THEN "DeserializationError" ELSE "TransportError"

\* Result<T, KalshiError>
Ok(v) == [ok |-> TRUE, value |-> v, err |-> "none"]
Err(kind, dflt) == [ok |-> FALSE, value |-> dflt, err |-> kind]

\* ------------------------------------------------------------ LoginResponse
NoLoginResponse == [member_id |-> "", token |-> ""]

\* Response::json::<LoginResponse>(): both fields are required strings.
DeserializeLoginResponse(body) ==
    IF body.json /\ FieldNames \subseteq DOMAIN body.fields
    THEN Ok([member_id |-> body.fields["member_id"],
             token |-> body.fields["token"]])
    ELSE Err(KalshiErrorFrom("decode"), NoLoginResponse)

\* ------------------------------------------------------------ LoginPayload
LoginPayload(user, password) == [email |-> user, password |-> password]

\* ----------------------------------------------------------------- requests
NoRequest ==
    [url |-> "", authorization |-> None, content_type |-> None,
     json |-> LoginPayload("", "")]

LoginRequest(self, user, password) ==
    [url |-> self.base_url \o "/login",
     authorization |-> None,
     content_type |-> None,
     json |-> LoginPayload(user, password)]

LogoutRequest_prefix_again(self) ==
    [url |-> self.base_url \o "/logout",
     authorization |-> Some("Bearer " \o self.curr_token.val),
     content_type |-> Some("application/json"),
     json |-> LoginPayload("", "")]

LogoutRequest(self) ==
    [url |-> self.base_url \o "/logout",
     authorization |-> Some(self.curr_token.val),
     content_type |-> Some("application/json"),
     json |-> LoginPayload("", "")]

\* ------------------------------------------------------------------ handles
NoHandle ==
    [state |-> "none", base_url |-> "", curr_token |-> None,
     member_id |-> None, client |-> 0]

\* format!("Bearer {}", result.token)
BearerToken_twice(token) == "Bearer " \o ("Bearer " \o token)

BearerToken(token) == "Bearer " \o token

\* The handle login returns, built from the receiver after its update.
LoggedInHandle(self) ==
    [state |-> "LoggedIn",
     base_url |-> self.base_url,
     curr_token |-> self.curr_token,
     member_id |-> self.member_id,
     client |-> self.client]

\* The handle logout returns.
LoggedOutHandle_keeps_token(self) ==
    [state |-> "LoggedOut",
     base_url |-> self.base_url,
     curr_token |-> self.curr_token,
     member_id |-> None,
     client |-> self.client]

LoggedOutHandle(self) ==
    [state |-> "LoggedOut",
     base_url |-> self.base_url,
     curr_token |-> None,
     member_id |-> None,
     client |-> self.client]

\* ------------------------------------------------------------------- login
\* Kalshi<LoggedOut>::login(&mut self, user, password) against a transport
\* that behaves as net.  Yields the receiver as the call leaves it, the
\* request it built and the Result it returns.
login(self, user, password, net) ==
    LET request == LoginRequest(self, user, password)
        parsed == DeserializeLoginResponse(net.body)
    IN  IF ~net.delivered
        THEN [self |-> self, request |-> request,
              result |-> Err(KalshiErrorFrom("send"), NoHandle)]
        ELSE IF ~parsed.ok
        THEN [self |-> self, request |-> request,
              result |-> Err(parsed.err, NoHandle)]
        ELSE LET updated ==
                    [self EXCEPT
                        !.curr_token = Some(BearerToken(parsed.value.token)),
                        !.member_id = Some(parsed.value.member_id)]
             IN  [self |-> updated, request |-> request,
                  result |-> Ok(LoggedInHandle(updated))]

\* ------------------------------------------------------------------ logout
logout_checks_status(self, net) ==
    IF ~self.curr_token.some
    THEN [self |-> self, request |-> NoRequest,
          result |-> Err("panic", NoHandle)]
    ELSE IF ~net.delivered \/ net.status # 200
    THEN [self |-> self, request |-> LogoutRequest(self),
          result |-> Err(KalshiErrorFrom("send"), NoHandle)]
    ELSE [self |-> self, request |-> LogoutRequest(self),
          result |-> Ok(LoggedOutHandle(self))]

logout_ignores_send_error(self, net) ==
    IF ~self.curr_token.some
    THEN [self |-> self, request |-> NoRequest,
          result |-> Err("panic", NoHandle)]
    ELSE [self |-> self, request |-> LogoutRequest(self),
          result |-> Ok(LoggedOutHandle(self))]

\* Kalshi<LoggedIn>::logout(&self).  unwrap() on an absent token panics
\* before any request is built.
logout(self, net) ==
    IF ~self.curr_token.some
    THEN [self |-> self, request |-> NoRequest,
          result |-> Err("panic", NoHandle)]
    ELSE IF ~net.delivered
    THEN [self |-> self, request |-> LogoutRequest(self),
          result |-> Err(KalshiErrorFrom("send"), NoHandle)]
    ELSE [self |-> self, request |-> LogoutRequest(self),
          result |-> Ok(LoggedOutHandle(self))]

\* ------------------------------------------------------------------- state
VARIABLES
    handles,    \* every handle value the caller holds, in creation order
    origin,     \* per handle: the call that produced it (history)
    consumed,   \* handles that were the receiver of a successful call (history)
    revoked,    \* Authorization values of delivered logout requests (history)
    calls,      \* number of calls made so far
    ret         \* the last call: receiver, request, transport outcome, Result

vars == <<handles, origin, consumed, revoked, calls, ret>>

NoCall ==
    [op |-> "none", self |-> 0, pre |-> NoHandle, request |-> NoRequest,
     net |-> Unreachable, ok |-> FALSE, err |-> "none", handle |-> 0]

\* The out-of-scope constructor yields one LoggedOut handle without token
\* or member id.
Init ==
    /\ \E b \in BaseUrls :
          handles = <<[state |-> "LoggedOut", base_url |-> b,
                       curr_token |-> None, member_id |-> None,
                       client |-> 1]>>
    /\ origin = <<[by |-> "new", from |-> 0, raw |-> None]>>
    /\ consumed = {}
    /\ revoked = {}
    /\ calls = 0
    /\ ret = NoCall

\* A caller holding the LoggedOut-tagged handle h calls login on it.
Login(h) ==
    /\ calls < MaxCalls
    /\ handles[h].state = "LoggedOut"
    /\ \E user \in Users, password \in Passwords, net \in NetOutcomes :
          LET r == login(handles[h], user, password, net)
              kept == [handles EXCEPT ![h] = r.self]
          IN  /\ handles' = IF r.result.ok
                            THEN Append(kept, r.result.value)
                            ELSE kept
              /\ origin' = IF r.result.ok
                           THEN Append(origin,
                                  [by |-> "login", from |-> h,
                                   raw |-> Some(net.body.fields["token"])])
                           ELSE origin
              /\ consumed' = IF r.result.ok THEN consumed \cup {h}
                             ELSE consumed
              /\ ret' = [op |-> "login", self |-> h, pre |-> handles[h],
                         request |-> r.request, net |-> net,
                         ok |-> r.result.ok, err |-> r.result.err,
                         handle |-> IF r.result.ok THEN Len(handles) + 1
                                    ELSE 0]
    /\ calls' = calls + 1
    /\ UNCHANGED revoked

\* A caller holding the LoggedIn-tagged handle h calls logout on it.
Logout(h) ==
    /\ calls < MaxCalls
    /\ handles[h].state = "LoggedIn"
    /\ \E net \in NetOutcomes :
          LET r == logout(handles[h], net)
              kept == [handles EXCEPT ![h] = r.self]
          IN  /\ handles' = IF r.result.ok
                            THEN Append(kept, r.result.value)
                            ELSE kept
              /\ origin' = IF r.result.ok
                           THEN Append(origin,
                                  [by |-> "logout", from |-> h,
                                   raw |-> None])
                           ELSE origin
              /\ consumed' = IF r.result.ok THEN consumed \cup {h}
                             ELSE consumed
              /\ revoked' = IF net.delivered /\ r.request.authorization.some
                            THEN revoked \cup {r.request.authorization.val}
                            ELSE revoked
              /\ ret' = [op |-> "logout", self |-> h, pre |-> handles[h],
                         request |-> r.request, net |-> net,
                         ok |-> r.result.ok, err |-> r.result.err,
                         handle |-> IF r.result.ok THEN Len(handles) + 1
                                    ELSE 0]
    /\ calls' = calls + 1

Next ==
    \/ \E h \in DOMAIN handles : Login(h)
    \/ \E h \in DOMAIN handles : Logout(h)

Spec == Init /\ [][Next]_vars

TypeOK ==
    /\ Len(origin) = Len(handles)
    /\ calls \in 0..MaxCalls
    /\ consumed \subseteq DOMAIN handles
    /\ ret.self \in 0..Len(handles)
    /\ ret.handle \in 0..Len(handles)

\* ------------------------------------------------------------------ claims
\* The last call was a login whose response deserialized to LoginResponse.
LoginDeserialized ==
    /\ ret.op = "login"
    /\ ret.net.delivered
    /\ ret.net.body.json
    /\ FieldNames \subseteq DOMAIN ret.net.body.fields

\* C1: a login whose response deserializes to {member_id: m, token: t}
\* returns a LoggedIn handle whose token is "Bearer " followed by t (the
\* prefix added once), whose member_id is m and whose base_url is that of
\* the handle login was called on.
C1_LoginYieldsBearerHandle ==
    LoginDeserialized =>
        /\ ret.ok
        /\ ret.handle \in DOMAIN handles
        /\ handles[ret.handle].state = "LoggedIn"
        /\ handles[ret.handle].curr_token =
              Some("Bearer " \o ret.net.body.fields["token"])
        /\ handles[ret.handle].member_id =
              Some(ret.net.body.fields["member_id"])
        /\ handles[ret.handle].base_url = ret.pre.base_url

C1_Witness ==
    /\ LoginDeserialized
    /\ ret.net.body.fields = [member_id |-> "42", token |-> "xyz"]
    /\ handles[ret.handle].curr_token = Some("Bearer xyz")
    /\ handles[ret.handle].member_id = Some("42")

\* C2: every handle the caller holds has token and member_id both present
\* or both absent, and present exactly when its tag is LoggedIn.
C2_PresenceMatchesTag ==
    \A i \in DOMAIN handles :
        /\ handles[i].curr_token.some <=> handles[i].member_id.some
        /\ handles[i].curr_token.some <=> handles[i].state = "LoggedIn"

\* C3: after a successful login the LoggedOut handle it was called on has
\* the same base_url, an absent token and an absent member_id, as before the
\* call; only the returned handle carries the token and the member_id.
C3_LoginLeavesReceiver ==
    (ret.op = "login" /\ ret.ok) =>
        /\ handles[ret.self].base_url = ret.pre.base_url
        /\ handles[ret.self].curr_token = ret.pre.curr_token
        /\ handles[ret.self].member_id = ret.pre.member_id
        /\ handles[ret.self].curr_token = None
        /\ handles[ret.self].member_id = None
        /\ handles[ret.handle].curr_token.some
        /\ handles[ret.handle].member_id.some

\* C4: a failed login (request not sent, or body not deserializable) returns
\* an error and no LoggedIn handle, and leaves the handle it was called on
\* unchanged: token and member_id still absent, base_url unchanged.
C4_FailedLoginLeavesReceiverLoggedOut ==
    (ret.op = "login" /\ ~LoginDeserialized) =>
        /\ ~ret.ok
        /\ ret.err # "none"
        /\ ret.handle = 0
        /\ handles[ret.self] = ret.pre
        /\ handles[ret.self].curr_token = None
        /\ handles[ret.self].member_id = None
        /\ handles[ret.self].base_url = ret.pre.base_url

\* C5: logout of a handle produced by a successful login, when its request
\* is sent, returns a LoggedOut handle with token absent, member_id absent
\* and the base_url of the handle it was called on.
C5_LogoutClearsSession ==
    (ret.op = "logout" /\ ret.net.delivered
        /\ origin[ret.self].by = "login") =>
        /\ ret.ok
        /\ ret.handle \in DOMAIN handles
        /\ handles[ret.handle].state = "LoggedOut"
        /\ handles[ret.handle].curr_token = None
        /\ handles[ret.handle].member_id = None
        /\ handles[ret.handle].base_url = ret.pre.base_url

C5_Witness ==
    /\ ret.op = "logout"
    /\ ret.net.delivered
    /\ origin[ret.self].by = "login"
    /\ ret.pre.curr_token = Some("Bearer xyz")
    /\ ret.handle = Len(handles)
    /\ handles[ret.handle].state = "LoggedOut"

\* C6: every logout request carries an Authorization header equal to
\* "Bearer " followed by the raw token the server returned to the login that
\* produced the handle, whatever calls came before.
C6_LogoutSendsBearerOfIssuedToken ==
    ret.op = "logout" =>
        /\ origin[ret.self].by = "login"
        /\ origin[ret.self].raw.some
        /\ ret.request.authorization =
              Some("Bearer " \o origin[ret.self].raw.val)
        /\ ret.request.authorization # Some(origin[ret.self].raw.val)

C6_Witness ==
    /\ ret.op = "logout"
    /\ calls = MaxCalls
    /\ origin[ret.self].raw = Some("xyz")
    /\ ret.request.authorization = Some("Bearer xyz")

\* C7: a handle that was the receiver of a successful login or logout is
\* never the receiver of a later call, and an Authorization token whose
\* logout request was delivered is never sent in a later logout request.
C7_TransitionsConsumeReceiver ==
    [][calls' = calls + 1 =>
          /\ ret'.self \notin consumed
          /\ (ret'.op = "logout" =>
                ret'.request.authorization.val \notin revoked)]_vars

\* C8: when the request cannot be sent, login and logout both fail with the
\* transport error kind; the failed logout returns no handle and the
\* LoggedIn handle it was called on keeps its token and member_id.
C8_UnreachableIsTransportError ==
    (ret.op # "none" /\ ~ret.net.delivered) =>
        /\ ~ret.ok
        /\ ret.err = "TransportError"
        /\ ret.handle = 0
        /\ (ret.op = "logout" =>
              /\ handles[ret.self] = ret.pre
              /\ handles[ret.self].state = "LoggedIn"
              /\ handles[ret.self].curr_token.some
              /\ handles[ret.self].member_id.some)

C8_Witness ==
    /\ ret.op = "logout"
    /\ ~ret.net.delivered
    /\ ret.err = "TransportError"
    /\ handles[ret.self].curr_token = Some("Bearer xyz")
    /\ \E i \in DOMAIN handles : origin[i].by = "logout"

\* C9: login's error tells its two causes apart: a request that could not
\* be sent yields the transport kind, a delivered body that does not match
\* {member_id, token} yields the deserialization kind, and the two differ.
C9_LoginErrorKinds ==
    ret.op = "login" =>
        /\ ~ret.net.delivered => ret.err = "TransportError"
        /\ (ret.net.delivered /\ ~LoginDeserialized) =>
              /\ ~ret.ok
              /\ ret.err = "DeserializationError"
              /\ ret.err # KalshiErrorFrom("send")

C9_Witness ==
    /\ ret.op = "login"
    /\ ret.net.delivered
    /\ ret.net.body.json
    /\ DOMAIN ret.net.body.fields = {"member_id"}
    /\ ret.err = "DeserializationError"

\* C10: logout succeeds exactly when its request was sent and a response
\* received; the status and the body of the response play no part, and the
\* handle returned is the same for every response.
C10_LogoutIgnoresResponse ==
    ret.op = "logout" =>
        /\ ret.ok <=> ret.net.delivered
        /\ ret.net.delivered =>
              handles[ret.handle] =
                 [state |-> "LoggedOut", base_url |-> ret.pre.base_url,
                  curr_token |-> None, member_id |-> None,
                  client |-> ret.pre.client]

C10_Witness ==
    /\ ret.op = "logout"
    /\ ret.net.delivered
    /\ ret.net.status = 401
    /\ ret.net.body = NotJson
    /\ ret.ok
    /\ handles[ret.handle].state = "LoggedOut"
====
